---- MODULE Spec2Model ----
(***************************************************************************)
(* Model of the ext_proc routing-decision server.                          *)
(*                                                                         *)
(*   pkg/processor/processor.go  ProcessingServer.Process and the          *)
(*                               decision engine it calls                  *)
(*   pkg/server/server.go        Server.Serve / Server.Stop and the two    *)
(*                               listener goroutines                       *)
(*                                                                         *)
(* Spec        one ext_proc stream handled by Process.                     *)
(* SpecServer  the server lifecycle (Serve, Stop, listener goroutines).    *)
(***************************************************************************)
EXTENDS Integers, Sequences, FiniteSets, TLC

(***************************************************************************)
(* Bounds of the model.                                                    *)
(***************************************************************************)
\* streams the gRPC server may run (Spec activates stream 1 only)
MaxStreams == 2
\* messages the peer sends on one stream
MaxMsgs == 2
\* headers in one received header set
MaxHeaders == 2
\* members of the JSON object the decision endpoint answers with
MaxMembers == 2

Streams == 1..MaxStreams

(***************************************************************************)
(* Strings whose characters matter are sequences of one-character strings. *)
(***************************************************************************)
UpperChars ==
    << "A", "B", "C", "D", "E", "F", "G", "H", "I", "J", "K", "L", "M",
       "N", "O", "P", "Q", "R", "S", "T", "U", "V", "W", "X", "Y", "Z" >>

LowerChars ==
    << "a", "b", "c", "d", "e", "f", "g", "h", "i", "j", "k", "l", "m",
       "n", "o", "p", "q", "r", "s", "t", "u", "v", "w", "x", "y", "z" >>

\* the lower-case letter of every upper-case letter
LowerOf ==
    [c \in { UpperChars[i] : i \in 1..Len(UpperChars) } |->
        LowerChars[CHOOSE i \in 1..Len(UpperChars) : UpperChars[i] = c]]

ToLowerChar(c) == IF c \in DOMAIN LowerOf THEN LowerOf[c] ELSE c

\* strings.ToLower
ToLower(str) == [i \in 1..Len(str) |-> ToLowerChar(str[i])]

(***************************************************************************)
(* pkg/config: the header names and the decision endpoint.                 *)
(***************************************************************************)
PreferredSvcHeader ==
    << "p", "r", "e", "f", "e", "r", "r", "e", "d", "-", "s", "v", "c" >>

RoutingDecisionHeader == "x-routing-decision"

\* the values config.RoutingDecisionServer may hold ("" = not configured)
RoutingDecisionServers == { "", "http://decision" }

(***************************************************************************)
(* Inputs: the messages the peer may send on a stream.                     *)
(***************************************************************************)
MixedCaseKey ==
    << "P", "r", "e", "f", "e", "r", "r", "e", "d", "-", "S", "v", "c" >>

OtherKey == << "h", "o", "s", "t" >>

\* core_v3.HeaderValue as the processor reads it (Key and RawValue): the
\* preference header in two casings, empty and not, and an unrelated header
HeaderValue ==
    { [Key |-> PreferredSvcHeader, RawValue |-> ""],
      [Key |-> PreferredSvcHeader, RawValue |-> "svc-a"],
      [Key |-> MixedCaseKey,       RawValue |-> ""],
      [Key |-> MixedCaseKey,       RawValue |-> "svc-b"],
      [Key |-> OtherKey,           RawValue |-> "example.com"] }

SeqsUpTo(S, n) == UNION { [1..k -> S] : k \in 0..n }

HeaderSets == SeqsUpTo(HeaderValue, MaxHeaders)

\* the oneof of ProcessingRequest that carries no header set the code reads;
\* "unset" is a request whose oneof is nil (the switch's default case)
OtherKinds ==
    { "RequestBody", "RequestTrailers", "ResponseHeaders", "ResponseBody",
      "ResponseTrailers", "unset" }

NoHeaders == << >>

ProcessingRequests ==
    [kind : {"RequestHeaders"}, Headers : HeaderSets]
        \cup [kind : OtherKinds, Headers : {NoHeaders}]

NoRequest == [kind |-> "none", Headers |-> NoHeaders]

(***************************************************************************)
(* The decision endpoint's answer: a body that is either not JSON or a     *)
(* JSON object, a sequence of members name : value.                        *)
(***************************************************************************)
Members ==
    { [name |-> "decision", type |-> "string", val |-> "svc-c"],
      [name |-> "decision", type |-> "string", val |-> ""],
      [name |-> "decision", type |-> "number", val |-> "5"],
      [name |-> "other",    type |-> "string", val |-> "x"] }

Bodies ==
    [syntaxOK : {TRUE}, members : SeqsUpTo(Members, MaxMembers)]
        \cup { [syntaxOK |-> FALSE, members |-> << >>] }

\* json.NewDecoder(body).Decode(&RoutingDecision{}): a body that is not JSON
\* is rejected before any field is written; in an object every "decision"
\* member that is a string is stored (the last one wins), a member of another
\* type leaves the field alone and is reported as the error once the object
\* has been read; members with other names are skipped.
RECURSIVE DecodeMembers(_, _)
DecodeMembers(ms, acc) ==
    IF ms = << >> THEN acc
    ELSE LET m == Head(ms)
             nxt == IF m.name # "decision" THEN acc
                    ELSE IF m.type = "string"
                         THEN [acc EXCEPT !.Decision = m.val]
                         ELSE [acc EXCEPT !.err = "decode"]
         IN  DecodeMembers(Tail(ms), nxt)

Decode(body) ==
    IF ~body.syntaxOK
    THEN [Decision |-> "", err |-> "decode"]
    ELSE DecodeMembers(body.members, [Decision |-> "", err |-> "nil"])

(***************************************************************************)
(* Responses.                                                              *)
(***************************************************************************)
\* &ext_proc_v3.HeadersResponse{}: no CommonResponse, so no mutation, and the
\* getters give the zero values
EmptyHeadersResponse ==
    [Response        |-> "nil",
     Status          |-> "CONTINUE",
     SetHeaders      |-> << >>,
     RemoveHeaders   |-> << >>,
     ClearRouteCache |-> FALSE]

\* a default response that already carries a request-headers mutation
MutatingDefaultResponse ==
    [kind |-> "RequestHeaders",
     RequestHeaders |->
        [Response        |-> "CommonResponse",
         Status          |-> "CONTINUE",
         SetHeaders      |-> << [Key          |-> "x-routing-decision",
                                 RawValue     |-> "",
                                 AppendAction |-> "APPEND_IF_EXISTS_OR_ADD"] >>,
         RemoveHeaders   |-> << >>,
         ClearRouteCache |-> TRUE]]

\* &ext_proc_v3.ProcessingResponse{}: no oneof set
EmptyProcessingResponse ==
    [kind |-> "none", RequestHeaders |-> EmptyHeadersResponse]

VARIABLES
    RoutingDecisionServer,  \* config.RoutingDecisionServer
    pc,          \* pc[s]: where Process is on stream s
    ctxDone,     \* ctxDone[s]: srv.Context() is cancelled
    req,         \* req[s]: the message the last Recv returned
    resp,        \* resp[s]: the response built for it
    fetched,     \* fetched[s]: what fetchRoutingDecision returned for it
    waitErr,     \* waitErr[s]: what errGrp.Wait returned for it
    rChan,       \* rChan[s]: the buffered channel of fetchRoutingDecision
    getCalls,    \* getCalls[s]: http.Get calls made for req[s]
    ret,         \* ret[s]: what Process returned ("none" while it runs)
    nRecv,       \* nRecv[s]: messages received on the stream
    nSent,       \* nSent[s]: responses sent on the stream
    lastSent,    \* lastSent[s]: the last response sent on the stream
    recvErr      \* recvErr[s]: the error the last Recv returned

streamVars ==
    << RoutingDecisionServer, pc, ctxDone, req, resp, fetched, waitErr, rChan,
       getCalls, ret, nRecv, nSent, lastSent, recvErr >>

VARIABLES
    grpcNetwork,   \* Server.grpcNetwork
    mockEnabled,   \* Server.mockBackend.enabled (httpsrv is set iff enabled)
    srvCtxDone,    \* Server.ctx is cancelled
    servePc,       \* where Serve is
    serveVia,      \* the case of Serve's select that was taken
    serveRet,      \* what Serve returned
    httpPc,        \* where the goroutine of the mock http server is
    httpVal,       \* what ListenAndServe returned to it
    grpcPc,        \* where the goroutine of the gRPC listener is
    grpcVal,       \* the error it reports
    errCh,         \* Serve's errCh, a channel of capacity 1
    grpcState,     \* the grpc.Server: new, serving, draining, stopped
    httpState,     \* the http.Server: new, listening, shutdown
    sockFile,      \* the unix socket file exists
    stopPc,        \* stopPc[c]: where the Stop called by c is
    stopRet,       \* stopRet[c]: what it returned
    stopSteps,     \* stopSteps[c]: the steps it has finished, in order
    deadline,      \* deadline[c]: its 30 s context has expired
    slept          \* slept[c]: seconds it has slept after the shutdown

serverVars ==
    << grpcNetwork, mockEnabled, srvCtxDone, servePc, serveVia, serveRet,
       httpPc, httpVal, grpcPc, grpcVal, errCh, grpcState, httpState,
       sockFile, stopPc, stopRet, stopSteps, deadline, slept >>

VARIABLES
    wrPc,          \* where WaitReady is
    wrTimeout,     \* its timeout, in ticker intervals
    wrClock,       \* ticker intervals elapsed since it was called
    wrTick,        \* tck.C holds a tick
    wrGet,         \* the outcome of the last GET of IsReady
    wrSawReady,    \* what the last IsReady returned
    wrRet          \* what WaitReady returned

readyVars == << wrPc, wrTimeout, wrClock, wrTick, wrGet, wrSawReady, wrRet >>

VARIABLES
    mainPc,        \* where start() of main is
    signalled,     \* SIGTERM or SIGINT was delivered
    exitCode       \* what start() returned (-1 while it runs)

mainVars == << mainPc, signalled, exitCode >>

callerVars == << readyVars, mainVars >>

vars == << streamVars, serverVars, callerVars >>

NoFetch == [Decision |-> "", err |-> "none"]

\* a lookup that skips empty values: the first non-empty preference wins
getPreferredSvcFirstNonEmpty(in) ==
    LET hits == { i \in 1..Len(in) :
                    /\ ToLower(in[i].Key) = PreferredSvcHeader
                    /\ in[i].RawValue # "" }
    IN  IF hits = {} THEN ""
        ELSE in[CHOOSE i \in hits : \A j \in hits : i <= j].RawValue

(***************************************************************************)
(* The decision engine (pure parts).                                       *)
(***************************************************************************)
\* the lookup with the keys compared as they are, not lowered
getPreferredSvcCaseSensitive(in) ==
    LET hits == { i \in 1..Len(in) : in[i].Key = PreferredSvcHeader }
    IN  IF hits = {} THEN ""
        ELSE in[CHOOSE i \in hits : \A j \in hits : i <= j].RawValue

\* getPreferredSvcFromHeaders: the value of the first header whose lowered
\* key is the preference header name, "" when there is none
getPreferredSvcFromHeaders(in) ==
    LET hits == { i \in 1..Len(in) : ToLower(in[i].Key) = PreferredSvcHeader }
    IN  IF hits = {} THEN ""
        ELSE in[CHOOSE i \in hits : \A j \in hits : i <= j].RawValue

\* a routing response that leaves the route cache alone
BuildRoutingResponseNoClear(header) ==
    [Response        |-> "CommonResponse",
     Status          |-> "CONTINUE",
     SetHeaders      |-> << [Key          |-> RoutingDecisionHeader,
                             RawValue     |-> header,
                             AppendAction |-> "APPEND_IF_EXISTS_OR_ADD"] >>,
     RemoveHeaders   |-> << PreferredSvcHeader >>,
     ClearRouteCache |-> FALSE]

\* lines 140-165 of generateRoutingDecision: the response that carries header
BuildRoutingResponse(header) ==
    [Response        |-> "CommonResponse",
     Status          |-> "CONTINUE",
     SetHeaders      |-> << [Key          |-> RoutingDecisionHeader,
                             RawValue     |-> header,
                             AppendAction |-> "APPEND_IF_EXISTS_OR_ADD"] >>,
     RemoveHeaders   |-> << PreferredSvcHeader >>,
     ClearRouteCache |-> TRUE]

\* the header set makes generateRoutingDecision call fetchRoutingDecision
NeedsFetch(in) == getPreferredSvcFromHeaders(in) = ""

\* generateRoutingDecision without the branch for an empty decision
generateRoutingDecisionNoEmptyCheck(in, f) ==
    LET header == getPreferredSvcFromHeaders(in)
    IN  IF header = ""
        THEN IF f.err # "nil"
             THEN [resp |-> EmptyHeadersResponse, err |-> f.err]
             ELSE [resp |-> BuildRoutingResponse(f.Decision), err |-> "nil"]
        ELSE [resp |-> BuildRoutingResponse(header), err |-> "nil"]

\* generateRoutingDecision, given what fetchRoutingDecision returned when it
\* was called (f is read only when the header set has no usable preference)
generateRoutingDecision(in, f) ==
    LET header == getPreferredSvcFromHeaders(in)
    IN  IF header = ""
        THEN IF f.err # "nil"
             THEN [resp |-> EmptyHeadersResponse, err |-> f.err]
             ELSE IF f.Decision = ""
                  THEN [resp |-> EmptyHeadersResponse, err |-> "nil"]
                  ELSE [resp |-> BuildRoutingResponse(f.Decision), err |-> "nil"]
        ELSE [resp |-> BuildRoutingResponse(header), err |-> "nil"]

\* fetchRoutingDecision up to the outbound call: the error it returns at once,
\* or "nil" when it goes on to start doExternalServiceCall
fetchRoutingDecisionGuard(server) ==
    IF server = "" THEN "config" ELSE "nil"

\* fetchRoutingDecision from the channel receive on: what it returns for the
\* response it took from rChan
fetchRoutingDecisionResult(body) == Decode(body)

(***************************************************************************)
(* Process: one invocation per stream.                                     *)
(*   pc = "idle"      no stream                                            *)
(*        "select"    top of the loop, before the ctx.Done() check         *)
(*        "Recv"      blocked in srv.Recv()                                *)
(*        "Get"       in fetchRoutingDecision, the errgroup goroutine is   *)
(*                    in http.Get and the caller in errGrp.Wait()          *)
(*        "rChanRecv" in fetchRoutingDecision at resp := <-rChan           *)
(*        "Send"      about to srv.Send(resp)                              *)
(*        "returned"  Process has returned ret                             *)
(***************************************************************************)
\* the case of the type switch for RequestHeaders, once generateRoutingDecision
\* has returned r: return its error, or wrap its response and go to Send
AfterDecision(s, r) ==
    IF r.err # "nil"
    THEN /\ pc' = [pc EXCEPT ![s] = "returned"]
         /\ ret' = [ret EXCEPT ![s] = r.err]
         /\ resp' = [resp EXCEPT ![s] = EmptyProcessingResponse]
    ELSE /\ pc' = [pc EXCEPT ![s] = "Send"]
         /\ ret' = ret
         /\ resp' = [resp EXCEPT ![s] =
                        [kind |-> "RequestHeaders", RequestHeaders |-> r.resp]]

\* a loop that goes to Recv without looking at the context
CheckCtxSkipped(s) ==
    /\ pc[s] = "select"
    /\ pc' = [pc EXCEPT ![s] = "Recv"]
    /\ UNCHANGED << RoutingDecisionServer, ctxDone, req, resp, fetched, waitErr,
                    rChan, getCalls, ret, nRecv, nSent, lastSent >>
    /\ UNCHANGED recvErr
    /\ UNCHANGED serverVars
    /\ UNCHANGED callerVars

\* select { case <-ctx.Done(): return ctx.Err(); default: }
CheckCtx(s) ==
    /\ pc[s] = "select"
    /\ IF ctxDone[s]
       THEN /\ pc' = [pc EXCEPT ![s] = "returned"]
            /\ ret' = [ret EXCEPT ![s] = "ctx.Err"]
       ELSE /\ pc' = [pc EXCEPT ![s] = "Recv"]
            /\ ret' = ret
    /\ UNCHANGED << RoutingDecisionServer, ctxDone, req, resp, fetched, waitErr,
                    rChan, getCalls, nRecv, nSent, lastSent >>
    /\ UNCHANGED recvErr
    /\ UNCHANGED serverVars
    /\ UNCHANGED callerVars

\* srv.Recv() returns message m: the type switch runs up to the point where
\* Process blocks next (the outbound call) or has its response
RecvMsg(s, m) ==
    /\ pc[s] = "Recv"
    /\ nRecv[s] < MaxMsgs
    /\ req' = [req EXCEPT ![s] = m]
    /\ nRecv' = [nRecv EXCEPT ![s] = @ + 1]
    /\ getCalls' = [getCalls EXCEPT ![s] = 0]
    /\ waitErr' = [waitErr EXCEPT ![s] = "none"]
    /\ rChan' = [rChan EXCEPT ![s] = << >>]
    /\ IF m.kind # "RequestHeaders"
       THEN /\ resp' = [resp EXCEPT ![s] = EmptyProcessingResponse]
            /\ pc' = [pc EXCEPT ![s] = "Send"]
            /\ fetched' = [fetched EXCEPT ![s] = NoFetch]
            /\ ret' = ret
       ELSE IF ~NeedsFetch(m.Headers)
       THEN /\ fetched' = [fetched EXCEPT ![s] = NoFetch]
            /\ AfterDecision(s, generateRoutingDecision(m.Headers, NoFetch))
       ELSE IF fetchRoutingDecisionGuard(RoutingDecisionServer) # "nil"
       THEN LET f == [Decision |-> "",
                      err |-> fetchRoutingDecisionGuard(RoutingDecisionServer)]
            IN  /\ fetched' = [fetched EXCEPT ![s] = f]
                /\ AfterDecision(s, generateRoutingDecision(m.Headers, f))
       ELSE /\ fetched' = [fetched EXCEPT ![s] = NoFetch]
            /\ resp' = [resp EXCEPT ![s] = EmptyProcessingResponse]
            /\ pc' = [pc EXCEPT ![s] = "Get"]
            /\ ret' = ret
    /\ UNCHANGED << RoutingDecisionServer, ctxDone, nSent, lastSent >>
    /\ recvErr' = [recvErr EXCEPT ![s] = "nil"]
    /\ UNCHANGED serverVars
    /\ UNCHANGED callerVars

\* io.EOF answered with one more response before the return
RecvEOFSendsResponse(s) ==
    /\ pc[s] = "Recv"
    /\ pc' = [pc EXCEPT ![s] = "returned"]
    /\ ret' = [ret EXCEPT ![s] = "nil"]
    /\ nSent' = [nSent EXCEPT ![s] = @ + 1]
    /\ lastSent' = [lastSent EXCEPT ![s] = EmptyProcessingResponse]
    /\ UNCHANGED << RoutingDecisionServer, ctxDone, req, resp, fetched, waitErr,
                    rChan, getCalls, nRecv >>
    /\ recvErr' = [recvErr EXCEPT ![s] = "EOF"]
    /\ UNCHANGED serverVars
    /\ UNCHANGED callerVars

\* srv.Recv() returns io.EOF: return nil
RecvEOF(s) ==
    /\ pc[s] = "Recv"
    /\ pc' = [pc EXCEPT ![s] = "returned"]
    /\ ret' = [ret EXCEPT ![s] = "nil"]
    /\ UNCHANGED << RoutingDecisionServer, ctxDone, req, resp, fetched, waitErr,
                    rChan, getCalls, nRecv, nSent, lastSent >>
    /\ recvErr' = [recvErr EXCEPT ![s] = "EOF"]
    /\ UNCHANGED serverVars
    /\ UNCHANGED callerVars

\* a receive error that ends Process on every stream in flight
RecvErrEndsAll(s) ==
    /\ pc[s] = "Recv"
    /\ pc' = [t \in Streams |->
                 IF pc[t] = "idle" THEN "idle" ELSE "returned"]
    /\ ret' = [t \in Streams |->
                  IF pc[t] \in { "idle", "returned" } THEN ret[t]
                  ELSE "Unknown"]
    /\ UNCHANGED << RoutingDecisionServer, ctxDone, req, resp, fetched, waitErr,
                    rChan, getCalls, nRecv, nSent, lastSent >>
    /\ recvErr' = [recvErr EXCEPT ![s] = "transport"]
    /\ UNCHANGED serverVars
    /\ UNCHANGED callerVars

\* srv.Recv() returns another error: return status.Errorf(codes.Unknown, ...)
RecvErr(s) ==
    /\ pc[s] = "Recv"
    /\ pc' = [pc EXCEPT ![s] = "returned"]
    /\ ret' = [ret EXCEPT ![s] = "Unknown"]
    /\ UNCHANGED << RoutingDecisionServer, ctxDone, req, resp, fetched, waitErr,
                    rChan, getCalls, nRecv, nSent, lastSent >>
    /\ recvErr' = [recvErr EXCEPT ![s] = "transport"]
    /\ UNCHANGED serverVars
    /\ UNCHANGED callerVars

\* srv.Recv() fails because the stream's context was cancelled while Process
\* was blocked in it: the error is not io.EOF, so the return is the same
RecvCanceled(s) ==
    /\ pc[s] = "Recv"
    /\ ctxDone[s]
    /\ pc' = [pc EXCEPT ![s] = "returned"]
    /\ ret' = [ret EXCEPT ![s] = "Unknown"]
    /\ recvErr' = [recvErr EXCEPT ![s] = "canceled"]
    /\ UNCHANGED << RoutingDecisionServer, ctxDone, req, resp, fetched, waitErr,
                    rChan, getCalls, nRecv, nSent, lastSent >>
    /\ UNCHANGED serverVars
    /\ UNCHANGED callerVars

\* doExternalServiceCall that calls http.Get a second time when the first fails
doExternalServiceCallRetry(s, err, body) ==
    /\ pc[s] = "Get"
    /\ getCalls' = [getCalls EXCEPT ![s] = IF err THEN @ + 2 ELSE @ + 1]
    /\ rChan' = [rChan EXCEPT ![s] = IF err THEN << >> ELSE << body >>]
    /\ waitErr' = [waitErr EXCEPT ![s] = IF err THEN "transport" ELSE "nil"]
    /\ pc' = [pc EXCEPT ![s] = "rChanRecv"]
    /\ UNCHANGED << RoutingDecisionServer, ctxDone, req, resp, fetched, ret,
                    nRecv, nSent, lastSent >>
    /\ UNCHANGED recvErr
    /\ UNCHANGED serverVars
    /\ UNCHANGED callerVars

\* doExternalServiceCall in the errgroup goroutine: http.Get returns a
\* transport error (err = TRUE), or a response that is put on rChan; then
\* errGrp.Wait() returns the goroutine's error to fetchRoutingDecision, which
\* logs it and goes on to the channel receive
doExternalServiceCall(s, err, body) ==
    /\ pc[s] = "Get"
    /\ getCalls' = [getCalls EXCEPT ![s] = @ + 1]
    /\ rChan' = [rChan EXCEPT ![s] = IF err THEN << >> ELSE << body >>]
    /\ waitErr' = [waitErr EXCEPT ![s] = IF err THEN "transport" ELSE "nil"]
    /\ pc' = [pc EXCEPT ![s] = "rChanRecv"]
    /\ UNCHANGED << RoutingDecisionServer, ctxDone, req, resp, fetched, ret,
                    nRecv, nSent, lastSent >>
    /\ UNCHANGED recvErr
    /\ UNCHANGED serverVars
    /\ UNCHANGED callerVars

\* resp := <-rChan, enabled only when the channel holds a response; then the
\* decode, the return to generateRoutingDecision and the return to Process
fetchRoutingDecision(s) ==
    /\ pc[s] = "rChanRecv"
    /\ rChan[s] # << >>
    /\ LET f == fetchRoutingDecisionResult(Head(rChan[s]))
       IN  /\ fetched' = [fetched EXCEPT ![s] = f]
           /\ AfterDecision(s, generateRoutingDecision(req[s].Headers, f))
    /\ rChan' = [rChan EXCEPT ![s] = Tail(@)]
    /\ UNCHANGED << RoutingDecisionServer, ctxDone, req, waitErr, getCalls,
                    nRecv, nSent, lastSent >>
    /\ UNCHANGED recvErr
    /\ UNCHANGED serverVars
    /\ UNCHANGED callerVars

\* srv.Send that sends the empty default instead of the response built
SendRespDefault(s) ==
    /\ pc[s] = "Send"
    /\ nSent' = [nSent EXCEPT ![s] = @ + 1]
    /\ lastSent' = [lastSent EXCEPT ![s] = EmptyProcessingResponse]
    /\ pc' = [pc EXCEPT ![s] = "select"]
    /\ UNCHANGED << RoutingDecisionServer, ctxDone, req, resp, fetched, waitErr,
                    rChan, getCalls, ret, nRecv >>
    /\ UNCHANGED recvErr
    /\ UNCHANGED serverVars
    /\ UNCHANGED callerVars

\* srv.Send(resp) succeeds: loop
SendResp(s) ==
    /\ pc[s] = "Send"
    /\ nSent' = [nSent EXCEPT ![s] = @ + 1]
    /\ lastSent' = [lastSent EXCEPT ![s] = resp[s]]
    /\ pc' = [pc EXCEPT ![s] = "select"]
    /\ UNCHANGED << RoutingDecisionServer, ctxDone, req, resp, fetched, waitErr,
                    rChan, getCalls, ret, nRecv >>
    /\ UNCHANGED recvErr
    /\ UNCHANGED serverVars
    /\ UNCHANGED callerVars

\* a failed srv.Send after which Process goes on with the loop
SendErrGoesOn(s) ==
    /\ pc[s] = "Send"
    /\ pc' = [pc EXCEPT ![s] = "select"]
    /\ UNCHANGED << RoutingDecisionServer, ctxDone, req, resp, fetched, waitErr,
                    rChan, getCalls, ret, nRecv, nSent, lastSent >>
    /\ UNCHANGED recvErr
    /\ UNCHANGED serverVars
    /\ UNCHANGED callerVars

\* srv.Send(resp) fails: return err
SendErr(s) ==
    /\ pc[s] = "Send"
    /\ pc' = [pc EXCEPT ![s] = "returned"]
    /\ ret' = [ret EXCEPT ![s] = "send"]
    /\ UNCHANGED << RoutingDecisionServer, ctxDone, req, resp, fetched, waitErr,
                    rChan, getCalls, nRecv, nSent, lastSent >>
    /\ UNCHANGED recvErr
    /\ UNCHANGED serverVars
    /\ UNCHANGED callerVars

\* the stream's context is cancelled (by the peer or by the server)
CancelStream(s) ==
    /\ pc[s] \notin { "idle", "returned" }
    /\ ~ctxDone[s]
    /\ ctxDone' = [ctxDone EXCEPT ![s] = TRUE]
    /\ UNCHANGED << RoutingDecisionServer, pc, req, resp, fetched, waitErr,
                    rChan, getCalls, ret, nRecv, nSent, lastSent >>
    /\ UNCHANGED recvErr
    /\ UNCHANGED serverVars
    /\ UNCHANGED callerVars

\* Process on stream s with a peer that sends messages of msgs and a decision
\* endpoint that answers with bodies of bodies
ProcessWith(s, msgs, bodies) ==
    \/ CheckCtx(s)
    \/ \E m \in msgs : RecvMsg(s, m)
    \/ RecvEOF(s)
    \/ RecvErr(s)
    \/ RecvCanceled(s)
    \/ \E body \in bodies : doExternalServiceCall(s, FALSE, body)
    \/ doExternalServiceCall(s, TRUE, CHOOSE b \in bodies : TRUE)
    \/ fetchRoutingDecision(s)
    \/ SendResp(s)
    \/ SendErr(s)
    \/ CancelStream(s)

Process(s) == ProcessWith(s, ProcessingRequests, Bodies)

\* a peer that sends one message of each branch of the decision, and an
\* endpoint that answers with a decision or with a body that is not JSON
FewRequests ==
    { [kind |-> "RequestBody", Headers |-> NoHeaders],
      [kind |-> "RequestHeaders", Headers |-> << >>],
      [kind |-> "RequestHeaders",
       Headers |-> << [Key |-> PreferredSvcHeader, RawValue |-> "svc-a"] >>] }

FewBodies ==
    { [syntaxOK |-> TRUE,
       members |-> << [name |-> "decision", type |-> "string",
                       val |-> "svc-c"] >>],
      [syntaxOK |-> FALSE, members |-> << >>] }

(***************************************************************************)
(* The server: Serve, its two listener goroutines, and Stop.               *)
(***************************************************************************)
\* defaultShutdownWait, in seconds
defaultShutdownWait == 5

\* who calls Stop: Serve on cancellation, and main (or a test) directly
StopCallers == { "Serve", "main" }

\* the streams Process is running on
InFlight == { s \in Streams : pc[s] \notin { "idle", "returned" } }

\* the serving gRPC server accepts a stream and calls Process on it; a server
\* in GracefulStop accepts none
OpenStream(s) ==
    /\ pc[s] = "idle"
    /\ grpcPc = "serving"
    /\ grpcState = "serving"
    /\ pc' = [pc EXCEPT ![s] = "select"]
    /\ UNCHANGED << RoutingDecisionServer, ctxDone, req, resp, fetched, waitErr,
                    rChan, getCalls, ret, nRecv, nSent, lastSent, recvErr >>
    /\ UNCHANGED serverVars
    /\ UNCHANGED callerVars

\* Serve up to its select: the goroutines are started
ServeStart ==
    /\ servePc = "idle"
    /\ servePc' = "select"
    /\ errCh' = << >>
    /\ httpPc' = IF mockEnabled THEN "ListenAndServe" ELSE "none"
    /\ grpcPc' = "Listen"
    /\ UNCHANGED << grpcNetwork, mockEnabled, srvCtxDone, serveVia, serveRet,
                    httpVal, grpcVal, grpcState, httpState, sockFile, stopPc,
                    stopRet, stopSteps, deadline, slept >>
    /\ UNCHANGED streamVars
    /\ UNCHANGED callerVars

\* httpsrv.ListenAndServe() is entered: it returns ErrServerClosed at once
\* after a Shutdown, an error when it cannot bind, and serves otherwise
httpListenAndServe(ok) ==
    /\ httpPc = "ListenAndServe"
    /\ IF httpState = "shutdown"
       THEN /\ ok
            /\ httpVal' = "ErrServerClosed"
            /\ httpPc' = "send"
            /\ httpState' = httpState
       ELSE IF ok
       THEN /\ httpState' = "listening"
            /\ httpPc' = "serving"
            /\ httpVal' = httpVal
       ELSE /\ httpVal' = "listenErr"
            /\ httpPc' = "send"
            /\ httpState' = httpState
    /\ UNCHANGED << grpcNetwork, mockEnabled, srvCtxDone, servePc, serveVia,
                    serveRet, grpcPc, grpcVal, errCh, grpcState, sockFile,
                    stopPc, stopRet, stopSteps, deadline, slept >>
    /\ UNCHANGED streamVars
    /\ UNCHANGED callerVars

\* ListenAndServe returns while serving: ErrServerClosed once Shutdown was
\* called, or the error of a failed Accept
httpServeReturns(failed) ==
    /\ httpPc = "serving"
    /\ IF failed
       THEN /\ httpState = "listening"
            /\ httpVal' = "serveErr"
       ELSE /\ httpState = "shutdown"
            /\ httpVal' = "ErrServerClosed"
    /\ httpPc' = "send"
    /\ UNCHANGED << grpcNetwork, mockEnabled, srvCtxDone, servePc, serveVia,
                    serveRet, grpcPc, grpcVal, errCh, grpcState, httpState,
                    sockFile, stopPc, stopRet, stopSteps, deadline, slept >>
    /\ UNCHANGED streamVars
    /\ UNCHANGED callerVars

\* errCh <- err in the http goroutine: blocks while the channel is full
httpSend ==
    /\ httpPc = "send"
    /\ Len(errCh) < 1
    /\ errCh' = Append(errCh, httpVal)
    /\ httpPc' = "done"
    /\ UNCHANGED << grpcNetwork, mockEnabled, srvCtxDone, servePc, serveVia,
                    serveRet, httpVal, grpcPc, grpcVal, grpcState, httpState,
                    sockFile, stopPc, stopRet, stopSteps, deadline, slept >>
    /\ UNCHANGED streamVars
    /\ UNCHANGED callerVars

\* the gRPC goroutine: the stale socket file is removed, then net.Listen
grpcListen(ok) ==
    /\ grpcPc = "Listen"
    /\ IF ok
       THEN /\ sockFile' = (grpcNetwork = "unix")
            /\ grpcPc' = "Serve"
            /\ grpcVal' = grpcVal
       ELSE /\ sockFile' = IF grpcNetwork = "unix" THEN FALSE ELSE sockFile
            /\ grpcVal' = "cannot listen"
            /\ grpcPc' = "send"
    /\ UNCHANGED << grpcNetwork, mockEnabled, srvCtxDone, servePc, serveVia,
                    serveRet, httpPc, httpVal, errCh, grpcState, httpState,
                    stopPc, stopRet, stopSteps, deadline, slept >>
    /\ UNCHANGED streamVars
    /\ UNCHANGED callerVars

\* the services are registered and grpcServer.Serve(listener) is entered: on a
\* server already stopped it closes the listener and returns ErrServerStopped
grpcServe ==
    /\ grpcPc = "Serve"
    /\ IF grpcState \in { "draining", "stopped" }
       THEN /\ grpcVal' = "ErrServerStopped"
            /\ grpcPc' = "send"
            /\ sockFile' = FALSE
            /\ grpcState' = grpcState
       ELSE /\ grpcState' = "serving"
            /\ grpcPc' = "serving"
            /\ UNCHANGED << grpcVal, sockFile >>
    /\ UNCHANGED << grpcNetwork, mockEnabled, srvCtxDone, servePc, serveVia,
                    serveRet, httpPc, httpVal, errCh, httpState, stopPc,
                    stopRet, stopSteps, deadline, slept >>
    /\ UNCHANGED streamVars
    /\ UNCHANGED callerVars

\* grpcServer.Serve returns: nil once a GracefulStop has completed, or the
\* error of a failed Accept
grpcServeReturns(failed) ==
    /\ grpcPc = "serving"
    /\ IF failed
       THEN /\ grpcState = "serving"
            /\ grpcVal' = "serveErr"
       ELSE /\ grpcState = "stopped"
            /\ grpcVal' = "nil"
    /\ grpcPc' = "send"
    /\ UNCHANGED << grpcNetwork, mockEnabled, srvCtxDone, servePc, serveVia,
                    serveRet, httpPc, httpVal, errCh, grpcState, httpState,
                    sockFile, stopPc, stopRet, stopSteps, deadline, slept >>
    /\ UNCHANGED streamVars
    /\ UNCHANGED callerVars

\* errCh <- err in the gRPC goroutine: blocks while the channel is full
grpcSend ==
    /\ grpcPc = "send"
    /\ Len(errCh) < 1
    /\ errCh' = Append(errCh, grpcVal)
    /\ grpcPc' = "done"
    /\ UNCHANGED << grpcNetwork, mockEnabled, srvCtxDone, servePc, serveVia,
                    serveRet, httpPc, httpVal, grpcVal, grpcState, httpState,
                    sockFile, stopPc, stopRet, stopSteps, deadline, slept >>
    /\ UNCHANGED streamVars
    /\ UNCHANGED callerVars

\* the server's context is cancelled
CancelServer ==
    /\ ~srvCtxDone
    /\ servePc # "returned"
    /\ srvCtxDone' = TRUE
    /\ UNCHANGED << grpcNetwork, mockEnabled, servePc, serveVia, serveRet,
                    httpPc, httpVal, grpcPc, grpcVal, errCh, grpcState,
                    httpState, sockFile, stopPc, stopRet, stopSteps, deadline,
                    slept >>
    /\ UNCHANGED streamVars
    /\ UNCHANGED callerVars

\* Serve's select without the call of Stop: it returns nil on cancellation
ServeCtxDoneNoStop ==
    /\ servePc = "select"
    /\ srvCtxDone
    /\ servePc' = "returned"
    /\ serveVia' = "ctx"
    /\ serveRet' = "nil"
    /\ UNCHANGED << grpcNetwork, mockEnabled, srvCtxDone, httpPc, httpVal,
                    grpcPc, grpcVal, errCh, grpcState, httpState, sockFile,
                    stopPc, stopRet, stopSteps, deadline, slept >>
    /\ UNCHANGED streamVars
    /\ UNCHANGED callerVars

\* Serve's select, case <-s.ctx.Done(): return s.Stop()
ServeCtxDone ==
    /\ servePc = "select"
    /\ srvCtxDone
    /\ servePc' = "Stop"
    /\ serveVia' = "ctx"
    /\ stopPc' = [stopPc EXCEPT !["Serve"] = "GracefulStop"]
    /\ UNCHANGED << grpcNetwork, mockEnabled, srvCtxDone, serveRet, httpPc,
                    httpVal, grpcPc, grpcVal, errCh, grpcState, httpState,
                    sockFile, stopRet, stopSteps, deadline, slept >>
    /\ UNCHANGED streamVars
    /\ UNCHANGED callerVars

\* Serve's select, case err := <-errCh: return err
ServeErrCh ==
    /\ servePc = "select"
    /\ errCh # << >>
    /\ serveRet' = Head(errCh)
    /\ errCh' = Tail(errCh)
    /\ serveVia' = "errCh"
    /\ servePc' = "returned"
    /\ UNCHANGED << grpcNetwork, mockEnabled, srvCtxDone, httpPc, httpVal,
                    grpcPc, grpcVal, grpcState, httpState, sockFile, stopPc,
                    stopRet, stopSteps, deadline, slept >>
    /\ UNCHANGED streamVars
    /\ UNCHANGED callerVars

\* main (or a test) calls Stop
StopCall ==
    /\ stopPc["main"] = "idle"
    /\ stopPc' = [stopPc EXCEPT !["main"] = "GracefulStop"]
    /\ UNCHANGED << grpcNetwork, mockEnabled, srvCtxDone, servePc, serveVia,
                    serveRet, httpPc, httpVal, grpcPc, grpcVal, errCh,
                    grpcState, httpState, sockFile, stopRet, stopSteps,
                    deadline, slept >>
    /\ UNCHANGED streamVars
    /\ UNCHANGED callerVars

\* the 30 s context made at the entry of Stop expires
DeadlineExpires(c) ==
    /\ stopPc[c] \notin { "idle", "returned" }
    /\ ~deadline[c]
    /\ deadline' = [deadline EXCEPT ![c] = TRUE]
    /\ UNCHANGED << grpcNetwork, mockEnabled, srvCtxDone, servePc, serveVia,
                    serveRet, httpPc, httpVal, grpcPc, grpcVal, errCh,
                    grpcState, httpState, sockFile, stopPc, stopRet, stopSteps,
                    slept >>
    /\ UNCHANGED streamVars
    /\ UNCHANGED callerVars

\* grpcServer.GracefulStop() is entered: the listener is closed (which
\* removes the socket file of a unix listener) and no new stream is accepted
GracefulStopBegin(c) ==
    /\ stopPc[c] = "GracefulStop"
    /\ stopPc' = [stopPc EXCEPT ![c] = "drain"]
    /\ grpcState' = IF grpcState = "stopped" THEN "stopped" ELSE "draining"
    /\ sockFile' = IF grpcPc = "serving" THEN FALSE ELSE sockFile
    /\ UNCHANGED << grpcNetwork, mockEnabled, srvCtxDone, servePc, serveVia,
                    serveRet, httpPc, httpVal, grpcPc, grpcVal, errCh,
                    httpState, stopRet, stopSteps, deadline, slept >>
    /\ UNCHANGED streamVars
    /\ UNCHANGED callerVars

\* GracefulStop returns: every stream has ended
GracefulStopDone(c) ==
    /\ stopPc[c] = "drain"
    /\ InFlight = {}
    /\ grpcState' = "stopped"
    /\ stopSteps' = [stopSteps EXCEPT ![c] = Append(@, "GracefulStop")]
    /\ stopPc' = [stopPc EXCEPT ![c] = "RemoveAll"]
    /\ UNCHANGED << grpcNetwork, mockEnabled, srvCtxDone, servePc, serveVia,
                    serveRet, httpPc, httpVal, grpcPc, grpcVal, errCh,
                    httpState, sockFile, stopRet, deadline, slept >>
    /\ UNCHANGED streamVars
    /\ UNCHANGED callerVars

\* if s.grpcNetwork == "unix" { os.RemoveAll(s.grpcAddress) }
StopRemoveAll(c) ==
    /\ stopPc[c] = "RemoveAll"
    /\ IF grpcNetwork = "unix"
       THEN /\ sockFile' = FALSE
            /\ stopSteps' = [stopSteps EXCEPT ![c] = Append(@, "RemoveAll")]
       ELSE UNCHANGED << sockFile, stopSteps >>
    /\ stopPc' = [stopPc EXCEPT ![c] = "Shutdown"]
    /\ UNCHANGED << grpcNetwork, mockEnabled, srvCtxDone, servePc, serveVia,
                    serveRet, httpPc, httpVal, grpcPc, grpcVal, errCh,
                    grpcState, httpState, stopRet, deadline, slept >>
    /\ UNCHANGED streamVars
    /\ UNCHANGED callerVars

\* Stop returns r to its caller; the Stop called by Serve is Serve's return
StopReturns(c, r) ==
    /\ stopPc' = [stopPc EXCEPT ![c] = "returned"]
    /\ stopRet' = [stopRet EXCEPT ![c] = r]
    /\ IF c = "Serve"
       THEN servePc' = "returned" /\ serveRet' = r
       ELSE UNCHANGED << servePc, serveRet >>

\* httpsrv.Shutdown(ctx) when there is an http server: it returns nil, or
\* ctx.Err() when the 30 s context has expired with connections of a server
\* that was started still active, and then Stop returns the wrapped error at
\* once
StopShutdown(c, ok) ==
    /\ stopPc[c] = "Shutdown"
    /\ IF ~mockEnabled
       THEN /\ ok
            /\ stopPc' = [stopPc EXCEPT ![c] = "Sleep"]
            /\ UNCHANGED << httpState, stopSteps, stopRet, servePc, serveRet >>
       ELSE /\ httpState' = "shutdown"
            /\ stopSteps' = [stopSteps EXCEPT ![c] = Append(@, "Shutdown")]
            /\ IF ok
               THEN /\ stopPc' = [stopPc EXCEPT ![c] = "Sleep"]
                    /\ UNCHANGED << stopRet, servePc, serveRet >>
               ELSE /\ deadline[c]
                    /\ httpState # "new"
                    /\ StopReturns(c, "http server shutdown error")
    /\ UNCHANGED << grpcNetwork, mockEnabled, srvCtxDone, serveVia, httpPc,
                    httpVal, grpcPc, grpcVal, errCh, grpcState, sockFile,
                    deadline, slept >>
    /\ UNCHANGED streamVars
    /\ UNCHANGED callerVars

\* time.Sleep(defaultShutdownWait); return nil
StopSleep(c) ==
    /\ stopPc[c] = "Sleep"
    /\ slept' = [slept EXCEPT ![c] = defaultShutdownWait]
    /\ stopSteps' = [stopSteps EXCEPT ![c] = Append(@, "Sleep")]
    /\ StopReturns(c, "nil")
    /\ UNCHANGED << grpcNetwork, mockEnabled, srvCtxDone, serveVia, httpPc,
                    httpVal, grpcPc, grpcVal, errCh, grpcState, httpState,
                    sockFile, deadline >>
    /\ UNCHANGED streamVars
    /\ UNCHANGED callerVars

Stop(c) ==
    \/ DeadlineExpires(c)
    \/ GracefulStopBegin(c)
    \/ GracefulStopDone(c)
    \/ StopRemoveAll(c)
    \/ \E ok \in BOOLEAN : StopShutdown(c, ok)
    \/ StopSleep(c)

Serve ==
    \/ ServeStart
    \/ \E ok \in BOOLEAN : httpListenAndServe(ok)
    \/ \E failed \in BOOLEAN : httpServeReturns(failed)
    \/ httpSend
    \/ \E ok \in BOOLEAN : grpcListen(ok)
    \/ grpcServe
    \/ \E failed \in BOOLEAN : grpcServeReturns(failed)
    \/ grpcSend
    \/ ServeCtxDone
    \/ ServeErrCh

(***************************************************************************)
(* Readiness: IsReady and WaitReady. Time is counted in intervals of        *)
(* WaitReady's ticker (500 ms).                                            *)
(***************************************************************************)
\* the longest timeout a caller hands to WaitReady, in ticker intervals
MaxTimeout == 2

\* how the GET of IsReady can end: status 200, another status, an error
GetOutcomes == { "200", "non200", "err" }

\* what GET http://bindAddress/headers can give now: the 200 of the /headers
\* handler while this server's http listener serves, any answer when the
\* address is held by another process, and always an error (at the latest
\* the client's timeout of 5 s)
GetCanGive(get) ==
    \/ get = "err"
    \/ get = "200" /\ httpPc = "serving" /\ httpState = "listening"
    \/ httpVal = "listenErr"

\* IsReady that takes any answered GET for ready
IsReadyAnyStatus(get) == IF mockEnabled THEN get # "err" ELSE TRUE

\* IsReady(s), given how its GET ended: without the mock backend no GET is
\* made and the result is true
IsReady(get) == IF mockEnabled THEN get = "200" ELSE TRUE

\* WaitReady(s, timeout) up to its select: the context and the ticker are made
WaitReadyCall(t) ==
    /\ wrPc = "idle"
    /\ wrPc' = "select"
    /\ wrTimeout' = t
    /\ UNCHANGED << wrClock, wrTick, wrGet, wrSawReady, wrRet >>
    /\ UNCHANGED << mainVars, streamVars, serverVars >>

\* one ticker interval passes: a tick is put on tck.C, which holds one tick
TickerInterval ==
    /\ wrPc \in { "select", "Do" }
    /\ wrClock <= MaxTimeout
    /\ wrClock' = wrClock + 1
    /\ wrTick' = TRUE
    /\ UNCHANGED << wrPc, wrTimeout, wrGet, wrSawReady, wrRet >>
    /\ UNCHANGED << mainVars, streamVars, serverVars >>

\* select, case <-ctx.Done(): return ctx.Err()
WaitReadyCtxDone ==
    /\ wrPc = "select"
    /\ wrClock >= wrTimeout
    /\ wrPc' = "returned"
    /\ wrRet' = "DeadlineExceeded"
    /\ UNCHANGED << wrTimeout, wrClock, wrTick, wrGet, wrSawReady >>
    /\ UNCHANGED << mainVars, streamVars, serverVars >>

\* select, case <-tck.C: IsReady(s) is called
WaitReadyTick ==
    /\ wrPc = "select"
    /\ wrTick
    /\ wrTick' = FALSE
    /\ wrPc' = "Do"
    /\ UNCHANGED << wrTimeout, wrClock, wrGet, wrSawReady, wrRet >>
    /\ UNCHANGED << mainVars, streamVars, serverVars >>

\* IsReady returns: return nil when it is true, back to the select otherwise
IsReadyReturns(get) ==
    /\ wrPc = "Do"
    /\ IF mockEnabled
       THEN get \in GetOutcomes /\ GetCanGive(get)
       ELSE get = "none"
    /\ wrGet' = get
    /\ wrSawReady' = IsReady(get)
    /\ IF IsReady(get)
       THEN wrPc' = "returned" /\ wrRet' = "nil"
       ELSE wrPc' = "select" /\ wrRet' = wrRet
    /\ UNCHANGED << wrTimeout, wrClock, wrTick >>
    /\ UNCHANGED << mainVars, streamVars, serverVars >>

WaitReady ==
    \/ \E t \in 0..MaxTimeout : WaitReadyCall(t)
    \/ WaitReadyCtxDone
    \/ WaitReadyTick
    \/ \E get \in GetOutcomes \cup { "none" } : IsReadyReturns(get)

(***************************************************************************)
(* main: start(), which runs Serve and then Stop in an errgroup.           *)
(***************************************************************************)
\* the streams of the runs that couple the server with Process
MainStreams == { 1 }

\* start() up to <-ctx.Done(): the logger is made (return 1 when that fails),
\* the server is made, the signals are caught and Serve is handed to the group
mainStart(ok) ==
    /\ mainPc = "start"
    /\ IF ok
       THEN mainPc' = "Done" /\ exitCode' = exitCode
       ELSE mainPc' = "exited" /\ exitCode' = 1
    /\ UNCHANGED << signalled, readyVars, streamVars, serverVars >>

\* SIGTERM or SIGINT cancels the context of signal.NotifyContext
Signal ==
    /\ mainPc \in { "Done", "Wait" }
    /\ ~signalled
    /\ signalled' = TRUE
    /\ UNCHANGED << mainPc, exitCode, readyVars, streamVars, serverVars >>

\* the group's goroutine calls s.Serve()
mainServe ==
    /\ mainPc \in { "Done", "Wait" }
    /\ ServeStart

\* the context of errgroup.WithContext is done: the signal context is, or a
\* function of the group has returned an error
mainCtxIsDone ==
    \/ signalled
    \/ servePc = "returned" /\ serveRet # "nil"

\* <-ctx.Done() returns and s.Stop() is handed to the group
mainCtxDone ==
    /\ mainPc = "Done"
    /\ mainCtxIsDone
    /\ mainPc' = "Wait"
    /\ stopPc' = [stopPc EXCEPT !["main"] = "GracefulStop"]
    /\ UNCHANGED << grpcNetwork, mockEnabled, srvCtxDone, servePc, serveVia,
                    serveRet, httpPc, httpVal, grpcPc, grpcVal, errCh,
                    grpcState, httpState, sockFile, stopRet, stopSteps,
                    deadline, slept >>
    /\ UNCHANGED << signalled, exitCode, readyVars, streamVars >>

\* eg.Wait() returns once Serve and Stop have returned: return 1 when one of
\* them returned an error, 0 otherwise
mainWait ==
    /\ mainPc = "Wait"
    /\ servePc = "returned"
    /\ stopPc["main"] = "returned"
    /\ exitCode' = IF serveRet = "nil" /\ stopRet["main"] = "nil" THEN 0 ELSE 1
    /\ mainPc' = "exited"
    /\ UNCHANGED << signalled, readyVars, streamVars, serverVars >>

\* the server after New, before Serve is called
InitServer ==
    /\ grpcNetwork \in { "tcp", "unix" }
    /\ mockEnabled \in BOOLEAN
    /\ srvCtxDone = FALSE
    /\ servePc = "idle"
    /\ serveVia = "none"
    /\ serveRet = "none"
    /\ httpPc = "none"
    /\ httpVal = "none"
    /\ grpcPc = "none"
    /\ grpcVal = "none"
    /\ errCh = << >>
    /\ grpcState = "new"
    /\ httpState = "new"
    /\ sockFile \in IF grpcNetwork = "unix" THEN BOOLEAN ELSE { FALSE }
    /\ stopPc = [c \in StopCallers |-> "idle"]
    /\ stopRet = [c \in StopCallers |-> "none"]
    /\ stopSteps = [c \in StopCallers |-> << >>]
    /\ deadline = [c \in StopCallers |-> FALSE]
    /\ slept = [c \in StopCallers |-> 0]

\* a server made by main (tcp, no mock backend) that is serving
InitServing ==
    /\ grpcNetwork = "tcp"
    /\ mockEnabled = FALSE
    /\ srvCtxDone = FALSE
    /\ servePc = "select"
    /\ serveVia = "none"
    /\ serveRet = "none"
    /\ httpPc = "none"
    /\ httpVal = "none"
    /\ grpcPc = "serving"
    /\ grpcVal = "none"
    /\ errCh = << >>
    /\ grpcState = "serving"
    /\ httpState = "new"
    /\ sockFile = FALSE
    /\ stopPc = [c \in StopCallers |-> "idle"]
    /\ stopRet = [c \in StopCallers |-> "none"]
    /\ stopSteps = [c \in StopCallers |-> << >>]
    /\ deadline = [c \in StopCallers |-> FALSE]
    /\ slept = [c \in StopCallers |-> 0]

InitStreams(active) ==
    /\ RoutingDecisionServer \in RoutingDecisionServers
    /\ pc = [s \in Streams |-> IF s \in active THEN "select" ELSE "idle"]
    /\ ctxDone = [s \in Streams |-> FALSE]
    /\ req = [s \in Streams |-> NoRequest]
    /\ resp = [s \in Streams |-> EmptyProcessingResponse]
    /\ fetched = [s \in Streams |-> NoFetch]
    /\ waitErr = [s \in Streams |-> "none"]
    /\ rChan = [s \in Streams |-> << >>]
    /\ getCalls = [s \in Streams |-> 0]
    /\ ret = [s \in Streams |-> "none"]
    /\ nRecv = [s \in Streams |-> 0]
    /\ nSent = [s \in Streams |-> 0]
    /\ lastSent = [s \in Streams |-> EmptyProcessingResponse]
    /\ recvErr = [s \in Streams |-> "none"]

\* WaitReady not called, main not started
InitCallers ==
    /\ wrPc = "idle"
    /\ wrTimeout = 0
    /\ wrClock = 0
    /\ wrTick = FALSE
    /\ wrGet = "none"
    /\ wrSawReady = FALSE
    /\ wrRet = "none"
    /\ mainPc = "start"
    /\ signalled = FALSE
    /\ exitCode = -1

\* one stream on a serving server
Init == InitStreams({1}) /\ InitServing /\ InitCallers

Next == \E s \in Streams : Process(s)

Spec == Init /\ [][Next]_vars

\* the server's lifecycle, from New on
InitLifecycle == InitStreams({}) /\ InitServer /\ InitCallers

NextServer ==
    \/ Serve
    \/ CancelServer
    \/ StopCall
    \/ \E c \in StopCallers : Stop(c)

SpecServer == InitLifecycle /\ [][NextServer]_vars

\* two streams in flight at once on a serving server
InitConcurrent == InitStreams({1, 2}) /\ InitServing /\ InitCallers

NextConcurrent == \E s \in Streams : ProcessWith(s, FewRequests, FewBodies)

SpecConcurrent == InitConcurrent /\ [][NextConcurrent]_vars

\* a test's use of the server: Serve in a goroutine, WaitReady beside it
NextReady ==
    \/ ServeStart
    \/ \E ok \in BOOLEAN : httpListenAndServe(ok)
    \/ \E failed \in BOOLEAN : httpServeReturns(failed)
    \/ httpSend
    \/ \E ok \in BOOLEAN : grpcListen(ok)
    \/ grpcServe
    \/ \E failed \in BOOLEAN : grpcServeReturns(failed)
    \/ grpcSend
    \/ ServeErrCh
    \/ TickerInterval
    \/ WaitReady

\* time passes, WaitReady's goroutine takes the steps it can, and the GET of
\* IsReady returns (its client has a timeout)
SpecReady ==
    InitLifecycle /\ [][NextReady]_vars
        /\ WF_vars(TickerInterval) /\ WF_vars(WaitReady)

\* the process as main runs it: a tcp server without the mock backend, whose
\* context is never cancelled, one stream at a time on it
InitMain ==
    /\ InitStreams({})
    /\ InitServer
    /\ grpcNetwork = "tcp"
    /\ ~mockEnabled
    /\ InitCallers

\* what the environment does: a signal, a peer that opens a stream
MainEnv ==
    \/ Signal
    \/ \E s \in MainStreams : OpenStream(s)

\* the steps of the process, of the peer on an open stream and of the
\* decision endpoint
MainSteps ==
    \/ \E ok \in BOOLEAN : mainStart(ok)
    \/ mainServe
    \/ \E ok \in BOOLEAN : grpcListen(ok)
    \/ grpcServe
    \/ \E failed \in BOOLEAN : grpcServeReturns(failed)
    \/ grpcSend
    \/ ServeErrCh
    \/ mainCtxDone
    \/ Stop("main")
    \/ mainWait
    \/ \E s \in MainStreams : ProcessWith(s, FewRequests, FewBodies)

NextMain == MainEnv \/ MainSteps

\* every goroutine that can take a step takes one, the peer ends or fails
\* every receive it is waited on for, and the endpoint's http.Get returns
SpecMain == InitMain /\ [][NextMain]_vars /\ WF_vars(MainSteps)

(***************************************************************************)
(* Vocabulary of the properties.                                           *)
(***************************************************************************)
\* two keys are equal under case-insensitive comparison
EqualFold(a, b) ==
    /\ Len(a) = Len(b)
    /\ \A i \in 1..Len(a) : ToLowerChar(a[i]) = ToLowerChar(b[i])

IsPreferenceHeader(h) == EqualFold(h.Key, PreferredSvcHeader)

\* the header set has no header with the preference header's name
LacksPreference(in) == \A i \in 1..Len(in) : ~IsPreferenceHeader(in[i])

\* i is the first header of the set with the preference header's name
FirstPreferenceAt(in, i) ==
    /\ i \in 1..Len(in)
    /\ IsPreferenceHeader(in[i])
    /\ \A j \in 1..(i - 1) : ~IsPreferenceHeader(in[j])

\* the message last received on s is not answered yet
Unanswered(s) == nSent[s] < nRecv[s]

\* the message last received on s has been answered
Answered(s) == nRecv[s] > 0 /\ nSent[s] = nRecv[s]

\* r is a request-headers response that changes nothing
IsUnmodified(r) ==
    /\ r.kind = "RequestHeaders"
    /\ r.RequestHeaders.SetHeaders = << >>
    /\ r.RequestHeaders.RemoveHeaders = << >>
    /\ r.RequestHeaders.ClearRouteCache = FALSE

\* r is the empty default response
IsEmptyDefault(r) ==
    /\ r.kind = "none"
    /\ r.RequestHeaders.SetHeaders = << >>
    /\ r.RequestHeaders.RemoveHeaders = << >>
    /\ r.RequestHeaders.ClearRouteCache = FALSE

\* r routes to v: sets the decision header to v, removes the preference
\* header and clears the route cache
RoutesTo(r, v) ==
    /\ r.kind = "RequestHeaders"
    /\ Len(r.RequestHeaders.SetHeaders) = 1
    /\ r.RequestHeaders.SetHeaders[1].Key = RoutingDecisionHeader
    /\ r.RequestHeaders.SetHeaders[1].RawValue = v
    /\ \E i \in 1..Len(r.RequestHeaders.RemoveHeaders) :
           r.RequestHeaders.RemoveHeaders[i] = PreferredSvcHeader
    /\ r.RequestHeaders.ClearRouteCache = TRUE

\* the response to the message last received on s satisfies P: it is what
\* Process is about to send, or what it sent, unless the send itself failed
ResponseIs(s, P(_)) ==
    IF Unanswered(s)
    THEN \/ pc[s] = "Send" /\ P(resp[s])
         \/ pc[s] = "returned" /\ ret[s] = "send" /\ P(resp[s])
    ELSE P(lastSent[s])

\* Process is blocked on s for good: in the receive from a channel that is
\* empty and that no goroutine will write to
BlockedForever(s) == pc[s] = "rChanRecv" /\ rChan[s] = << >>

(***************************************************************************)
(* C1 (as claimed): every message received on a stream is answered with    *)
(* one response before the next receive: Process is at the top of the loop *)
(* or in Recv only with every message answered, and a message not answered *)
(* yet is on its way to the one Send (or that Send failed).                *)
(***************************************************************************)
C1_OneResponsePerMessage ==
    \A s \in Streams :
        /\ nSent[s] <= nRecv[s]
        /\ nRecv[s] <= nSent[s] + 1
        /\ pc[s] \in { "select", "Recv" } => nSent[s] = nRecv[s]
        /\ Unanswered(s) =>
              \/ pc[s] \in { "Get", "Send" }
              \/ pc[s] = "rChanRecv" /\ ~BlockedForever(s)
              \/ pc[s] = "returned" /\ ret[s] = "send"

(***************************************************************************)
(* C2 (as claimed): when the GET to the decision endpoint fails with a     *)
(* transport error, Process answers the message with a "no decision"       *)
(* response and goes on; it neither returns an error nor stays blocked.    *)
(***************************************************************************)
C2_UnreachableEndpointContinues ==
    \A s \in Streams :
        waitErr[s] = "transport" =>
            /\ ~BlockedForever(s)
            /\ ResponseIs(s, IsUnmodified)

(***************************************************************************)
(* C3 (as claimed): when fetchRoutingDecision fails because the endpoint   *)
(* is not configured or the body cannot be decoded, the message is         *)
(* answered with an unmodified response and Process does not return the    *)
(* error.                                                                  *)
(***************************************************************************)
C3_FailOpen ==
    \A s \in Streams :
        fetched[s].err \in { "config", "decode" } =>
            /\ ret[s] \notin { "config", "decode" }
            /\ ResponseIs(s, IsUnmodified)

(***************************************************************************)
(* C4: when the first header named like the preference header (in any      *)
(* casing) has a non-empty value, the response routes to exactly that      *)
(* value (decision header set, preference header removed, route cache      *)
(* cleared) and no GET is made for the message.                            *)
(***************************************************************************)
C4_PreferenceShortCircuits ==
    \A s \in Streams :
        \A i \in 1..Len(req[s].Headers) :
            ( /\ req[s].kind = "RequestHeaders"
              /\ FirstPreferenceAt(req[s].Headers, i)
              /\ req[s].Headers[i].RawValue # "" )
            => /\ getCalls[s] = 0
               /\ pc[s] \notin { "Get", "rChanRecv" }
               /\ ret[s] \notin { "config", "decode" }
               /\ LET v == req[s].Headers[i].RawValue
                      P(r) == RoutesTo(r, v)
                  IN  ResponseIs(s, P)

C4_Witness ==
    /\ Answered(1)
    /\ req[1].kind = "RequestHeaders"
    /\ Len(req[1].Headers) = 2
    /\ req[1].Headers[1].Key = MixedCaseKey
    /\ req[1].Headers[1].RawValue = "svc-b"
    /\ req[1].Headers[2].Key = PreferredSvcHeader
    /\ req[1].Headers[2].RawValue = "svc-a"
    /\ RoutingDecisionServer # ""

(***************************************************************************)
(* C5 (as claimed): a header set without the preference header makes       *)
(* exactly one GET (never none, never two), and a non-empty decoded        *)
(* decision is the value of the decision header emitted.                   *)
(***************************************************************************)
C5_ExactlyOneCallAlways ==
    \A s \in Streams :
        ( req[s].kind = "RequestHeaders" /\ LacksPreference(req[s].Headers) )
        => /\ getCalls[s] <= 1
           /\ pc[s] # "Get" => getCalls[s] = 1
           /\ fetched[s].Decision # "" =>
                 LET P(r) == RoutesTo(r, fetched[s].Decision)
                 IN  ResponseIs(s, P)

(***************************************************************************)
(* C5 (amended): a header set without the preference header makes at most  *)
(* one GET, never a second: exactly one when the decision endpoint is      *)
(* configured and none when it is not; and when the body is decoded        *)
(* without error to a non-empty decision, that decision is the value of    *)
(* the decision header emitted.                                            *)
(***************************************************************************)
C5_OneCallWhenConfigured ==
    \A s \in Streams :
        ( req[s].kind = "RequestHeaders" /\ LacksPreference(req[s].Headers) )
        => /\ getCalls[s] <= 1
           /\ pc[s] # "Get" =>
                 getCalls[s] = IF RoutingDecisionServer = "" THEN 0 ELSE 1
           /\ ( fetched[s].Decision # "" /\ fetched[s].err = "nil" ) =>
                 LET P(r) == RoutesTo(r, fetched[s].Decision)
                 IN  ResponseIs(s, P)

C5_Witness ==
    /\ Answered(1)
    /\ req[1].kind = "RequestHeaders"
    /\ Len(req[1].Headers) = 1
    /\ LacksPreference(req[1].Headers)
    /\ getCalls[1] = 1
    /\ fetched[1] = [Decision |-> "svc-c", err |-> "nil"]
    /\ RoutesTo(lastSent[1], "svc-c")

(***************************************************************************)
(* C6: when the GET succeeds and the decoded decision is empty, the        *)
(* response to the message carries no mutation and does not clear the      *)
(* route cache, Process returns no decision error, and after the send it   *)
(* is back in the loop.                                                    *)
(***************************************************************************)
C6_EmptyDecisionUnmodified ==
    \A s \in Streams :
        ( req[s].kind = "RequestHeaders"
          /\ fetched[s] = [Decision |-> "", err |-> "nil"] )
        => /\ ResponseIs(s, IsUnmodified)
           /\ ret[s] \notin { "config", "decode" }
           /\ Answered(s) /\ ret[s] = "none" => pc[s] \in { "select", "Recv" }

C6_Witness ==
    /\ Answered(1)
    /\ req[1].kind = "RequestHeaders"
    /\ fetched[1] = [Decision |-> "", err |-> "nil"]
    /\ getCalls[1] = 1
    /\ pc[1] = "Recv"

(***************************************************************************)
(* C7: once Recv has returned end-of-stream, Process has returned nil and  *)
(* the responses sent are exactly the messages received before it: none    *)
(* is sent for the end-of-stream signal or after it.                       *)
(***************************************************************************)
C7_EndOfStreamReturnsNil ==
    \A s \in Streams :
        ret[s] = "nil" => pc[s] = "returned" /\ nSent[s] = nRecv[s]

C7_Witness ==
    /\ ret[1] = "nil"
    /\ pc[1] = "returned"
    /\ nRecv[1] = 2
    /\ nSent[1] = 2

(***************************************************************************)
(* C8: a message of any kind other than request-headers (the unset kind    *)
(* included) is answered with the empty default response, and Process      *)
(* does not return because of it: it goes to the Send and, the response    *)
(* sent, back to the loop.                                                 *)
(***************************************************************************)
C8_OtherKindsEmptyResponse ==
    \A s \in Streams :
        req[s].kind \in OtherKinds =>
            /\ ResponseIs(s, IsEmptyDefault)
            /\ getCalls[s] = 0
            /\ ret[s] \notin { "config", "decode" }
            /\ Answered(s) /\ ret[s] = "none" => pc[s] \in { "select", "Recv" }

C8_Witness ==
    /\ Answered(1)
    /\ req[1].kind = "unset"
    /\ pc[1] = "Recv"
    /\ nRecv[1] = 2

\* a listener goroutine has ended after reporting v on errCh
ListenerReported(v) ==
    \/ httpPc = "done" /\ httpVal = v
    \/ grpcPc = "done" /\ grpcVal = v

\* Serve returned what the Stop it ran on cancellation returned
ReturnedStopOutcome ==
    /\ serveVia = "ctx"
    /\ srvCtxDone
    /\ stopPc["Serve"] = "returned"
    /\ serveRet = stopRet["Serve"]

(***************************************************************************)
(* C9 (as claimed): Serve returns only on cancellation, with the outcome   *)
(* of the Stop it ran, or with the error of a listener that terminated     *)
(* with an error.                                                          *)
(***************************************************************************)
C9_ServeReturnsCtxOrListenerError ==
    servePc = "returned" =>
        \/ ReturnedStopOutcome
        \/ /\ serveVia = "errCh"
           /\ ListenerReported(serveRet)
           /\ serveRet # "nil"

(***************************************************************************)
(* C9 (amended): Serve returns only on cancellation, with the outcome of   *)
(* the Stop it ran, or with the value a listener goroutine reported on     *)
(* errCh when it terminated: the listener's error, or nil when the gRPC    *)
(* listener ended because a Stop called directly (as main does) completed  *)
(* its graceful stop.                                                      *)
(***************************************************************************)
C9_ServeReturnsCtxOrListenerReport ==
    servePc = "returned" =>
        \/ ReturnedStopOutcome
        \/ /\ serveVia = "errCh"
           /\ ListenerReported(serveRet)
           /\ serveRet = "nil" =>
                 /\ grpcState = "stopped"
                 /\ \E c \in StopCallers :
                        /\ Len(stopSteps[c]) >= 1
                        /\ stopSteps[c][1] = "GracefulStop"

C9_Witness ==
    /\ servePc = "returned"
    /\ serveVia = "errCh"
    /\ serveRet = "nil"
    /\ stopPc["main"] = "returned"
    /\ stopPc["Serve"] = "idle"
    /\ ~srvCtxDone

\* the steps of Stop that apply to this server, in the order of the code
ExpectedSteps ==
    << "GracefulStop" >>
        \o (IF grpcNetwork = "unix" THEN << "RemoveAll" >> ELSE << >>)
        \o (IF mockEnabled THEN << "Shutdown" >> ELSE << >>)
        \o << "Sleep" >>

IsPrefix(a, b) ==
    /\ Len(a) <= Len(b)
    /\ \A i \in 1..Len(a) : a[i] = b[i]

(***************************************************************************)
(* C10 (as claimed): every Stop performs its steps in the fixed order      *)
(* graceful drain, socket file removal, http shutdown, delay, one after    *)
(* the other, and returns only after the post-shutdown delay.              *)
(***************************************************************************)
C10_StopOrderThenDelay ==
    \A c \in StopCallers :
        /\ IsPrefix(stopSteps[c], ExpectedSteps)
        /\ stopPc[c] \in { "RemoveAll", "Shutdown", "Sleep", "returned" }
              => grpcState = "stopped"
        /\ stopPc[c] = "returned" =>
              /\ stopSteps[c] = ExpectedSteps
              /\ slept[c] = defaultShutdownWait

(***************************************************************************)
(* C11 (as claimed): an error in a step of Stop is reported in its result  *)
(* and skips no later step: a Stop that returns the http shutdown error    *)
(* has still performed every step, the post-shutdown delay included.       *)
(***************************************************************************)
C11_ShutdownErrorKeepsDelay ==
    \A c \in StopCallers :
        (stopPc[c] = "returned" /\ stopRet[c] = "http server shutdown error")
            => /\ slept[c] = defaultShutdownWait
               /\ stopSteps[c][Len(stopSteps[c])] = "Sleep"

(***************************************************************************)
(* C12 (as claimed): once Stop has been called after cancellation it       *)
(* eventually returns, whatever the in-flight streams do: a stream that    *)
(* does not finish is terminated and does not hold the shutdown forever.   *)
(***************************************************************************)
C12_StopEventuallyCompletes ==
    \A c \in StopCallers :
        (stopPc[c] # "idle") ~> (stopPc[c] = "returned")

(***************************************************************************)
(* C13: a server without the mock backend is ready whatever else holds,    *)
(* one with it is ready exactly when the GET of /headers answered 200;     *)
(* WaitReady, once called, returns: nil only after a tick of its ticker    *)
(* led to an IsReady that was true, the deadline error only once the       *)
(* timeout has elapsed and no IsReady was true.                            *)
(***************************************************************************)
C13_ReadinessAndWaitReady ==
    /\ [](/\ \A g \in GetOutcomes \cup { "none" } :
                IsReady(g) <=> (~mockEnabled \/ g = "200")
          /\ wrRet = "nil" =>
                /\ wrPc = "returned"
                /\ wrSawReady
                /\ wrClock >= 1
                /\ mockEnabled => wrGet = "200"
          /\ wrRet = "DeadlineExceeded" =>
                /\ wrPc = "returned"
                /\ wrClock >= wrTimeout
                /\ ~wrSawReady
          /\ wrPc = "returned" => wrRet \in { "nil", "DeadlineExceeded" })
    /\ (wrPc # "idle") ~> (wrPc = "returned")

C13_Witness ==
    /\ mockEnabled
    /\ wrRet = "nil"
    /\ wrGet = "200"
    /\ wrClock = 2
    /\ wrTimeout = 1

(***************************************************************************)
(* C14 (as claimed): start() returns 0 exactly when Serve and Stop both    *)
(* returned nil and 1 when one of them returned an error, and it does      *)
(* return once a termination signal was delivered or Serve or Stop has     *)
(* returned an error.                                                      *)
(***************************************************************************)
C14_ExitCodeAndExit ==
    /\ [](mainPc = "exited" =>
             (exitCode = 0 <=> (serveRet = "nil" /\ stopRet["main"] = "nil")))
    /\ [](mainPc = "exited" => exitCode \in { 0, 1 })
    /\ (\/ signalled
        \/ servePc = "returned" /\ serveRet # "nil"
        \/ stopPc["main"] = "returned" /\ stopRet["main"] # "nil")
           ~> (mainPc = "exited")

\* r is the response to message m, given what the decision call made for m
\* (if one was made) returned: the empty default for a kind other than
\* request headers, the route to the first non-empty preference, else the
\* route to the decision fetched, else an unmodified response
BuiltFrom(m, f, r) ==
    IF m.kind # "RequestHeaders"
    THEN IsEmptyDefault(r)
    ELSE IF \E i \in 1..Len(m.Headers) :
                FirstPreferenceAt(m.Headers, i) /\ m.Headers[i].RawValue # ""
    THEN \E i \in 1..Len(m.Headers) :
            /\ FirstPreferenceAt(m.Headers, i)
            /\ RoutesTo(r, m.Headers[i].RawValue)
    ELSE IF f.Decision # ""
    THEN RoutesTo(r, f.Decision)
    ELSE IsUnmodified(r)

(***************************************************************************)
(* C15: on every stream the responses follow the messages one by one: the  *)
(* count sent never exceeds the count received nor falls more than one     *)
(* behind, a receive starts only when every message received has its       *)
(* response, each send sends the response built for the message received   *)
(* last and raises the count by one with no receive in the same step, and  *)
(* the k-th response is the one built from the k-th message.               *)
(***************************************************************************)
C15_ResponsesInOrder ==
    /\ [](\A s \in Streams :
             /\ nSent[s] <= nRecv[s]
             /\ nRecv[s] <= nSent[s] + 1
             /\ pc[s] = "Recv" => nSent[s] = nRecv[s]
             /\ pc[s] = "Send" =>
                   /\ nSent[s] + 1 = nRecv[s]
                   /\ BuiltFrom(req[s], fetched[s], resp[s])
             /\ Answered(s) => BuiltFrom(req[s], fetched[s], lastSent[s]))
    /\ [][\A s \in Streams :
             /\ nSent'[s] # nSent[s] =>
                   /\ nSent'[s] = nSent[s] + 1
                   /\ nRecv'[s] = nRecv[s]
                   /\ lastSent'[s] = resp[s]
             /\ nRecv'[s] # nRecv[s] =>
                   /\ nRecv'[s] = nRecv[s] + 1
                   /\ nSent'[s] = nSent[s]
                   /\ nSent[s] = nRecv[s]]_vars

C15_Witness ==
    /\ nRecv[1] = 2
    /\ nSent[1] = 2
    /\ req[1].kind = "RequestHeaders"
    /\ LacksPreference(req[1].Headers)
    /\ fetched[1].Decision = "svc-c"
    /\ RoutesTo(lastSent[1], "svc-c")

\* everything Process keeps for stream s
StreamView(s) ==
    << pc[s], ctxDone[s], req[s], resp[s], fetched[s], waitErr[s], rChan[s],
       getCalls[s], ret[s], nRecv[s], nSent[s], lastSent[s], recvErr[s] >>

(***************************************************************************)
(* C16: with two streams in flight in any interleaving, the response on a  *)
(* stream is the one built from that stream's own message and from the     *)
(* answer to its own decision call (two streams with the same message and  *)
(* the same answer send the same response), and a step on one stream, its  *)
(* return with an error included, changes nothing of another stream, of    *)
(* the configuration or of the server.                                     *)
(***************************************************************************)
C16_StreamsIsolated ==
    /\ [](\A s \in Streams :
             /\ Answered(s) => BuiltFrom(req[s], fetched[s], lastSent[s])
             /\ \A t \in Streams :
                   ( /\ Answered(s) /\ Answered(t)
                     /\ req[s] = req[t]
                     /\ fetched[s] = fetched[t] )
                   => lastSent[s] = lastSent[t])
    /\ [][\A s \in Streams :
             StreamView(s)' # StreamView(s) =>
                /\ \A t \in Streams \ { s } : StreamView(t)' = StreamView(t)
                /\ RoutingDecisionServer' = RoutingDecisionServer
                /\ UNCHANGED serverVars]_vars

C16_Witness ==
    /\ pc[1] = "returned"
    /\ ret[1] = "Unknown"
    /\ nRecv[1] = 1
    /\ pc[2] = "select"
    /\ nSent[2] = 2
    /\ RoutesTo(lastSent[2], "svc-c")
    /\ grpcState = "serving"

(***************************************************************************)
(* C17 (as claimed): once Serve has returned the error with which one      *)
(* listener terminated, the other listener is not serving either.          *)
(***************************************************************************)
C17_ListenerErrorEndsServer ==
    ( /\ servePc = "returned"
      /\ serveVia = "errCh"
      /\ serveRet \in { "listenErr", "serveErr", "cannot listen" } )
    => /\ httpPc # "serving"
       /\ grpcPc # "serving"

(***************************************************************************)
(* C18: a Recv that fails with an error other than io.EOF ends Process     *)
(* with the Unknown-kind error and no response is sent for it; a Send that *)
(* fails ends Process with the send error, the response not counted as     *)
(* sent; once Process has returned, nothing more is received or sent on    *)
(* the stream.                                                             *)
(***************************************************************************)
C18_TransportFailureIsFatal ==
    /\ [](\A s \in Streams :
             /\ recvErr[s] \in { "transport", "canceled" } =>
                   /\ pc[s] = "returned"
                   /\ ret[s] = "Unknown"
                   /\ nSent[s] = nRecv[s]
             /\ ret[s] = "Unknown" => recvErr[s] \in { "transport", "canceled" }
             /\ ret[s] = "send" =>
                   /\ pc[s] = "returned"
                   /\ nSent[s] + 1 = nRecv[s])
    /\ [][\A s \in Streams :
             /\ ( /\ pc[s] = "Recv"
                  /\ recvErr'[s] \in { "transport", "canceled" } )
                => /\ nSent'[s] = nSent[s]
                   /\ nRecv'[s] = nRecv[s]
                   /\ pc'[s] = "returned"
             /\ ( /\ pc[s] = "Send"
                  /\ pc'[s] # "Send"
                  /\ nSent'[s] = nSent[s] )
                => /\ pc'[s] = "returned"
                   /\ ret'[s] = "send"
             /\ pc[s] = "returned" =>
                   /\ pc'[s] = "returned"
                   /\ ret'[s] = ret[s]
                   /\ nRecv'[s] = nRecv[s]
                   /\ nSent'[s] = nSent[s]]_vars

C18_Witness ==
    /\ pc[1] = "returned"
    /\ ret[1] = "Unknown"
    /\ recvErr[1] = "transport"
    /\ nRecv[1] = 1
    /\ nSent[1] = 1

(***************************************************************************)
(* C19 (as claimed): whenever Process ends because the stream's context    *)
(* was cancelled, at the check at the top of the loop or in a Recv that    *)
(* the cancellation interrupted, it returns the cancellation cause.        *)
(***************************************************************************)
C19_CancellationReturnsCause ==
    \A s \in Streams :
        ( /\ pc[s] = "returned"
          /\ ctxDone[s]
          /\ ret[s] = "ctx.Err" \/ recvErr[s] = "canceled" )
        => ret[s] = "ctx.Err"

(***************************************************************************)
(* C19 (amended): every iteration starts with the check of the context: a  *)
(* Recv is entered only from the check and only with the context not       *)
(* cancelled there; with the context cancelled there Process returns the   *)
(* cancellation cause, every message received answered, and receives and   *)
(* sends nothing more. A Recv that the cancellation interrupts ends        *)
(* Process with the Unknown-kind error instead.                            *)
(***************************************************************************)
C19_CheckAtTopOfLoop ==
    /\ [](\A s \in Streams :
             /\ ret[s] = "ctx.Err" =>
                   /\ pc[s] = "returned"
                   /\ ctxDone[s]
                   /\ nSent[s] = nRecv[s]
             /\ recvErr[s] = "canceled" =>
                   /\ pc[s] = "returned"
                   /\ ctxDone[s]
                   /\ ret[s] = "Unknown")
    /\ [][\A s \in Streams :
             /\ (pc[s] = "select" /\ pc'[s] # "select") =>
                   IF ctxDone[s]
                   THEN /\ pc'[s] = "returned"
                        /\ ret'[s] = "ctx.Err"
                        /\ nRecv'[s] = nRecv[s]
                        /\ nSent'[s] = nSent[s]
                   ELSE pc'[s] = "Recv"
             /\ (pc'[s] = "Recv" /\ pc[s] # "Recv") =>
                   /\ pc[s] = "select"
                   /\ ~ctxDone[s]
             /\ (ret'[s] = "ctx.Err" /\ ret[s] # "ctx.Err") =>
                   pc[s] = "select"]_vars

C19_Witness ==
    /\ pc[1] = "returned"
    /\ ret[1] = "ctx.Err"
    /\ nRecv[1] = 1
    /\ nSent[1] = 1

\* r has the shape of a response to a request-headers message
WellFormedHeadersResponse(r) ==
    LET h == r.RequestHeaders
        sets == { i \in 1..Len(h.SetHeaders) :
                    h.SetHeaders[i].Key = RoutingDecisionHeader }
    IN  /\ r.kind = "RequestHeaders"
        /\ h.ClearRouteCache <=> (sets # { })
        /\ Len(h.SetHeaders) <= 1
        /\ \A i \in 1..Len(h.SetHeaders) :
              /\ i \in sets
              /\ h.SetHeaders[i].AppendAction = "APPEND_IF_EXISTS_OR_ADD"
              /\ h.Status = "CONTINUE"
        /\ Len(h.RemoveHeaders) <= 1
        /\ \A i \in 1..Len(h.RemoveHeaders) :
              h.RemoveHeaders[i] = PreferredSvcHeader
        /\ h.RemoveHeaders # << >> => h.SetHeaders # << >>

(***************************************************************************)
(* C20: every response built for (and sent to) a request-headers message   *)
(* clears the route cache exactly when it sets the decision header, holds  *)
(* at most one set (the decision header, append-if-exists-or-add, status   *)
(* continue) and at most one removal (the preference header), and no       *)
(* removal without a set.                                                  *)
(***************************************************************************)
C20_HeadersResponseShape ==
    \A s \in Streams :
        req[s].kind = "RequestHeaders" =>
            /\ pc[s] = "Send" => WellFormedHeadersResponse(resp[s])
            /\ Answered(s) => WellFormedHeadersResponse(lastSent[s])

C20_Witness ==
    /\ req[1].kind = "RequestHeaders"
    /\ Answered(1)
    /\ fetched[1].Decision = "svc-c"
    /\ lastSent[1].RequestHeaders.ClearRouteCache
    /\ Len(lastSent[1].RequestHeaders.SetHeaders) = 1
    /\ Len(lastSent[1].RequestHeaders.RemoveHeaders) = 1

(***************************************************************************)
(* C21 (as claimed): when the header set of a request-headers message does *)
(* not contain the preference header and the decision comes from the       *)
(* outbound call, the response built carries no removal instruction.       *)
(***************************************************************************)
C21_RemovalOnlyIfPresent ==
    \A s \in Streams :
        ( /\ req[s].kind = "RequestHeaders"
          /\ LacksPreference(req[s].Headers)
          /\ fetched[s].err = "nil"
          /\ fetched[s].Decision # "" )
        => /\ pc[s] = "Send" => resp[s].RequestHeaders.RemoveHeaders = << >>
           /\ Answered(s) => lastSent[s].RequestHeaders.RemoveHeaders = << >>

(***************************************************************************)
(* C22 (as claimed): fetchRoutingDecision makes no GET and returns the     *)
(* configuration error when the endpoint is unset, makes one GET and no    *)
(* more otherwise, and always returns: after the GET it is never left on a *)
(* channel receive that cannot complete, and a transport error of the GET  *)
(* is what it returns.                                                     *)
(***************************************************************************)
C22_FetchAlwaysReturns ==
    \A s \in Streams :
        /\ getCalls[s] <= 1
        /\ RoutingDecisionServer = "" =>
              /\ getCalls[s] = 0
              /\ pc[s] \notin { "Get", "rChanRecv" }
        /\ pc[s] = "rChanRecv" =>
              /\ getCalls[s] = 1
              /\ rChan[s] # << >>
        /\ waitErr[s] = "transport" =>
              /\ pc[s] # "rChanRecv"
              /\ fetched[s].err = "transport"

(***************************************************************************)
(* C23 (as claimed): a listener goroutine that is about to report its      *)
(* termination on errCh is never left on a send that cannot complete: the  *)
(* channel has room, or Serve is still in its select and will take a value *)
(* from it.                                                                *)
(***************************************************************************)
C23_NoListenerBlockedOnErrCh ==
    (httpPc = "send" \/ grpcPc = "send") =>
        \/ Len(errCh) < 1
        \/ servePc = "select"

\* the first header of the set named like the preference header is empty
EmptyFirstPreference(in) ==
    \E i \in 1..Len(in) : FirstPreferenceAt(in, i) /\ in[i].RawValue = ""

(***************************************************************************)
(* C24: when the first header named like the preference header has an      *)
(* empty value, the message is handled as one without the header, whatever *)
(* later duplicates carry: with the endpoint configured the GET is made    *)
(* (once), with it unset Process returns the configuration error, and a    *)
(* response sent routes to the decision fetched, or changes nothing when   *)
(* that is empty; it never routes to a later duplicate's value.            *)
(***************************************************************************)
C24_EmptyFirstPreferenceIsAbsent ==
    \A s \in Streams :
        ( /\ req[s].kind = "RequestHeaders"
          /\ EmptyFirstPreference(req[s].Headers) )
        => /\ IF RoutingDecisionServer = ""
              THEN /\ getCalls[s] = 0
                   /\ pc[s] = "returned"
                   /\ ret[s] = "config"
              ELSE \/ pc[s] = "Get" /\ getCalls[s] = 0
                   \/ getCalls[s] = 1
           /\ LET P(r) == IF fetched[s].Decision # ""
                          THEN RoutesTo(r, fetched[s].Decision)
                          ELSE IsUnmodified(r)
              IN  /\ pc[s] = "Send" => P(resp[s])
                  /\ Answered(s) => P(lastSent[s])

C24_Witness ==
    /\ req[1].kind = "RequestHeaders"
    /\ Len(req[1].Headers) = 2
    /\ req[1].Headers[1] = [Key |-> PreferredSvcHeader, RawValue |-> ""]
    /\ req[1].Headers[2] = [Key |-> MixedCaseKey, RawValue |-> "svc-b"]
    /\ getCalls[1] = 1
    /\ Answered(1)
    /\ RoutesTo(lastSent[1], "svc-c")

====
